---- MODULE Spec2Model ----
(***************************************************************************)
(* Insurance-claims audit API (FastAPI + Azure Cosmos DB).                 *)
(*                                                                         *)
(* Strings are sequences of one-character strings.  The wall clock is a    *)
(* pair [sec, micro] inside one minute, so the "YYYY-MM-DDTHH:MM:" part of *)
(* every formatted time is the same constant text and is left out of the   *)
(* formatted values; the seconds and the microseconds are formatted as the *)
(* code formats them.  The clock does not go backwards.                    *)
(*                                                                         *)
(* Requests are served in slots.  get_audit_container is a plain function, *)
(* so the framework runs it in a worker thread, where the steps of         *)
(* get_cosmos_client interleave with those of other requests.  The         *)
(* handlers are coroutines without an await: each runs to its end on the   *)
(* event loop, which it holds until its response is handed over.           *)
(***************************************************************************)
EXTENDS Integers, Sequences, FiniteSets, TLC

VARIABLES
    clock,           \* datetime.utcnow(): [sec, micro]
    cosmos_client,   \* cosmos_database._cosmos_client: 0 is None, n > 0 the n-th instance
    constructed,     \* number of CosmosDBClient() calls that returned an instance
    store,           \* documents of the container insurance_claims_audit
    req,             \* the in-flight requests, by slot
    loop,            \* slot whose coroutine occupies the event loop, 0 when free
    acked,           \* history: [body, doc] of every submit answered with 200
    claim_in,        \* argument of extract_customer_id_from_claim (function check)
    customer_out     \* its result, <<"?">> before the call

vars == <<clock, cosmos_client, constructed, store, req, loop, acked, claim_in, customer_out>>

-----------------------------------------------------------------------------
(* Bounds *)

MaxTick == 3
MaxDocs == 2
MaxClaimLen == 6

-----------------------------------------------------------------------------
(* Strings *)

\* ord(c) of the characters that occur in formatted times
Code(c) ==
    CASE c = "." -> 46
      [] c = "0" -> 48 [] c = "1" -> 49 [] c = "2" -> 50 [] c = "3" -> 51
      [] c = "4" -> 52 [] c = "5" -> 53 [] c = "6" -> 54 [] c = "7" -> 55
      [] c = "8" -> 56 [] c = "9" -> 57
      [] c = "Z" -> 90

DigitChar(d) ==
    CASE d = 0 -> "0" [] d = 1 -> "1" [] d = 2 -> "2" [] d = 3 -> "3"
      [] d = 4 -> "4" [] d = 5 -> "5" [] d = 6 -> "6" [] d = 7 -> "7"
      [] d = 8 -> "8" [] d = 9 -> "9"

RECURSIVE Digits(_, _)
\* n as a zero-padded decimal of width w (%S, and isoformat's %06d)
Digits(n, w) ==
    IF w = 0 THEN <<>> ELSE Append(Digits(n \div 10, w - 1), DigitChar(n % 10))

RECURSIVE StrLess(_, _)
\* a < b for strings: ordinal, character by character, a proper prefix first
StrLess(a, b) ==
    IF b = <<>> THEN FALSE
    ELSE IF a = <<>> THEN TRUE
    ELSE IF a[1] # b[1] THEN Code(a[1]) < Code(b[1])
    ELSE StrLess(Tail(a), Tail(b))

StrLeq(a, b) == a = b \/ StrLess(a, b)

\* str.upper() on the alphabet of the claim ids
UpperChar(c) ==
    CASE c = "a" -> "A" [] c = "b" -> "B" [] c = "c" -> "C" [] c = "d" -> "D"
      [] c = "e" -> "E" [] c = "f" -> "F" [] c = "g" -> "G"
      [] OTHER -> c

Upper(s) == [i \in 1..Len(s) |-> UpperChar(s[i])]

RECURSIVE Split(_, _)
\* str.split(sep) for a one-character separator: the parts, in order
Split(s, sep) ==
    IF \A i \in 1..Len(s) : s[i] # sep THEN <<s>>
    ELSE LET k == CHOOSE i \in 1..Len(s) :
                      s[i] = sep /\ \A j \in 1..(i - 1) : s[j] # sep
         IN  <<SubSeq(s, 1, k - 1)>> \o Split(SubSeq(s, k + 1, Len(s)), sep)

Contains(s, c) == \E i \in 1..Len(s) : s[i] = c

\* s[:n]
Prefix(s, n) == SubSeq(s, 1, IF Len(s) < n THEN Len(s) ELSE n)

-----------------------------------------------------------------------------
(* main.extract_customer_id_from_claim *)

extract_customer_id_short7(claim_id) ==
    IF Contains(claim_id, "_") THEN Split(claim_id, "_")[1]
    ELSE IF Len(claim_id) > 6 THEN Upper(Prefix(claim_id, 6))
    ELSE <<"C", "U", "S", "T", "_">> \o claim_id

extract_customer_id_from_claim(claim_id) ==
    IF Contains(claim_id, "_") THEN Split(claim_id, "_")[1]
    ELSE IF Len(claim_id) >= 6 THEN Upper(Prefix(claim_id, 6))
    ELSE <<"C", "U", "S", "T", "_">> \o claim_id

-----------------------------------------------------------------------------
(* Clock and its formats *)

\* the clock values of the model: each full second and the microsecond after
\* it, MaxTick steps from the start
Times == {[sec |-> n \div 2, micro |-> n % 2] : n \in 0..MaxTick}

TimeLeq(a, b) == a.sec < b.sec \/ (a.sec = b.sec /\ a.micro <= b.micro)

\* datetime.isoformat(): the fraction is left out when microsecond is 0
isoformat(t) ==
    Digits(t.sec, 2) \o (IF t.micro = 0 THEN <<>> ELSE <<".">> \o Digits(t.micro, 6))

\* datetime.strftime("%Y%m%d%H%M%S")
strftime(t) == Digits(t.sec, 2)

-----------------------------------------------------------------------------
(* models.cosmos_models.CosmosAuditRecord *)

\* Optional[str] = None; None and "" are both falsy
None == <<"<None>">>

Truthy(s) == s # None /\ s # <<>>

_generate_audit_id(t) == <<"A", "U", "D">> \o strftime(t)

\* __init__; t_id is the clock read of _generate_audit_id, t_ts the later one
\* of current_time
CosmosAuditRecord(claim_id, customer_id, customer_name, process_name, process_status, process_details, agent_name, audit_id, t_id, t_ts) ==
    LET aid == IF Truthy(audit_id) THEN audit_id ELSE _generate_audit_id(t_id)
        current_time == isoformat(t_ts) \o <<"Z">>
    IN  [ claim_id        |-> claim_id,
          customer_id     |-> customer_id,
          customer_name   |-> customer_name,
          process_name    |-> process_name,
          process_status  |-> process_status,
          process_details |-> process_details,
          agent_name      |-> agent_name,
          audit_id        |-> aid,
          timestamp       |-> current_time,
          created_at      |-> current_time,
          updated_at      |-> current_time,
          id              |-> customer_id \o <<"_">> \o aid ]

to_dict(self) ==
    [ id              |-> self.id,
      audit_id        |-> self.audit_id,
      claim_id        |-> self.claim_id,
      customerId      |-> self.customer_id,
      customer_name   |-> self.customer_name,
      process_name    |-> self.process_name,
      process_status  |-> self.process_status,
      process_details |-> self.process_details,
      agent_name      |-> self.agent_name,
      timestamp       |-> self.timestamp,
      created_at      |-> self.created_at,
      updated_at      |-> self.updated_at,
      type            |-> "audit_record" ]

\* dict.get(key, default)
Get(data, key, default) == IF key \in DOMAIN data THEN data[key] ELSE default

from_dict_fresh_timestamps(data, t_id, t_ts) ==
    LET record == CosmosAuditRecord(data.claim_id, data.customerId,
                      data.customer_name, data.process_name, data.process_status,
                      data.process_details, data.agent_name, data.audit_id,
                      t_id, t_ts)
    IN  [record EXCEPT !.id = Get(data, "id", record.id)]

from_dict(data, t_id, t_ts) ==
    LET record == CosmosAuditRecord(data.claim_id, data.customerId,
                      data.customer_name, data.process_name, data.process_status,
                      data.process_details, data.agent_name, data.audit_id,
                      t_id, t_ts)
    IN  [record EXCEPT !.timestamp  = Get(data, "timestamp", record.timestamp),
                       !.created_at = Get(data, "created_at", record.created_at),
                       !.updated_at = Get(data, "updated_at", record.updated_at),
                       !.id         = Get(data, "id", record.id)]

to_response_model_swapped(self) ==
    [ audit_id        |-> self.audit_id,
      claim_id        |-> self.claim_id,
      customer_id     |-> self.customer_id,
      customer_name   |-> self.customer_name,
      process_name    |-> self.process_details,
      process_status  |-> self.process_status,
      process_details |-> self.process_name,
      agent_name      |-> self.agent_name,
      timestamp       |-> self.timestamp,
      created_at      |-> self.created_at,
      updated_at      |-> self.updated_at ]

to_response_model(self) ==
    [ audit_id        |-> self.audit_id,
      claim_id        |-> self.claim_id,
      customer_id     |-> self.customer_id,
      customer_name   |-> self.customer_name,
      process_name    |-> self.process_name,
      process_status  |-> self.process_status,
      process_details |-> self.process_details,
      agent_name      |-> self.agent_name,
      timestamp       |-> self.timestamp,
      created_at      |-> self.created_at,
      updated_at      |-> self.updated_at ]

-----------------------------------------------------------------------------
(* The requests of the model *)

Req == {1, 2}

\* AuditRecordRequest bodies
Bodies ==
    { [ claim_id        |-> <<"C", "1", "_", "7">>,
        customer_name   |-> "Ann",
        process_name    |-> "intake",
        process_status  |-> "pending",
        process_details |-> "opened",
        agent_name      |-> "agent-1" ],
      [ claim_id        |-> <<"C", "1", "_", "8">>,
        customer_name   |-> "Ann",
        process_name    |-> "payout",
        process_status  |-> "failed",
        process_details |-> "rejected",
        agent_name      |-> "agent-3" ],
      [ claim_id        |-> <<"a", "b", "c", "d", "e", "f", "g">>,
        customer_name   |-> "Bob",
        process_name    |-> "review",
        process_status  |-> "completed",
        process_details |-> "closed",
        agent_name      |-> "agent-2" ] }

\* customer_id path parameters
CustomerIds == { <<"C", "1">>, <<"A", "B", "C", "D", "E", "F">> }

NoBody == [claim_id |-> <<>>]

NoRecord == [id |-> <<>>]

\* an HTTP response: status, whether the body is JSON, its detail or message, the
\* records of the body, and the fields of the health body
Response(status, json, detail, records, health, database, timestamp) ==
    [ status |-> status, json |-> json, detail |-> detail, records |-> records,
      health |-> health, database |-> database, timestamp |-> timestamp ]

NoResp == Response(0, FALSE, "", <<>>, "", "", <<>>)

\* a request slot: the handler's parameters and locals, and what the storage did
\* in it (prior: the documents that had the new document's id before create_item;
\* calls: storage calls made; fault: the fault the storage raised)
Idle == [kind |-> "none", pc |-> "idle", body |-> NoBody, customer_id |-> <<>>,
         client |-> 0, record |-> NoRecord, prior |-> {}, calls |-> 0,
         fault |-> "none", resp |-> NoResp]

-----------------------------------------------------------------------------
(* The container: create_item and query_items of the storage service *)

NoExc == [type |-> "none", status_code |-> 0]

Conflict == [type |-> "CosmosHttpResponseError", status_code |-> 409]

\* the id is unique within the partition (customerId)
Conflicts(docs, body) ==
    \E d \in docs : d.id = body.id /\ d.customerId = body.customerId

create_item_upsert(docs, body) ==
    [ raised |-> NoExc,
      docs   |-> {d \in docs : ~(d.id = body.id /\ d.customerId = body.customerId)}
                     \cup {body} ]

\* container.create_item(body, enable_automatic_id_generation=False): what it
\* raises, and the documents afterwards
create_item(docs, body) ==
    IF Conflicts(docs, body)
    THEN [raised |-> Conflict, docs |-> docs]
    ELSE [raised |-> NoExc, docs |-> docs \cup {body}]

\* WHERE c.customerId = @customer_id AND c.type = @type, in partition customer_id
Matching(docs, customer_id) ==
    {d \in docs : d.customerId = customer_id /\ d.type = "audit_record"}

IsOrdering(items, docs) ==
    /\ Len(items) = Cardinality(docs)
    /\ {items[i] : i \in 1..Len(items)} = docs

\* ORDER BY c.timestamp ASC: the orders the service may return, ties in any order
query_items(docs, customer_id) ==
    LET m == Matching(docs, customer_id)
    IN  { items \in [1..Cardinality(m) -> m] :
            /\ IsOrdering(items, m)
            /\ \A i \in 1..(Len(items) - 1) :
                   StrLeq(items[i].timestamp, items[i + 1].timestamp) }

-----------------------------------------------------------------------------
(* Exceptions and their translation at the API boundary *)

\* what a storage call may raise besides a conflict
Faults == { [type |-> "CosmosHttpResponseError", status_code |-> 503],
            [type |-> "Exception", status_code |-> 0] }

\* raise HTTPException(status_code, detail): {"detail": detail}
HTTPException(status_code, detail) ==
    Response(status_code, TRUE, detail, <<>>, "", "", <<>>)

\* an exception no handler catches: the server's plain-text 500
Unhandled == Response(500, FALSE, "Internal Server Error", <<>>, "", "", <<>>)

\* create_audit_record, lines 105-113
SubmitError(e) ==
    IF e.type = "CosmosHttpResponseError"
    THEN IF e.status_code = 409
         THEN HTTPException(409, "Audit record already exists")
         ELSE HTTPException(500, "Database error")
    ELSE HTTPException(500, "Failed to create audit record")

\* get_audit_records_by_customer, lines 153-158
ListError(e) ==
    IF e.type = "CosmosHttpResponseError"
    THEN HTTPException(500, "Database error")
    ELSE HTTPException(500, "Failed to retrieve audit records")

ListResponse_empty_success(items, t) ==
    Response(200, TRUE, "",
             [i \in 1..Len(items) |-> to_response_model(from_dict(items[i], t, t))],
             "", "", <<>>)

\* get_audit_records_by_customer, lines 136-149
ListResponse(items, t) ==
    IF items = <<>>
    THEN HTTPException(404, "No audit records found for customer")
    ELSE Response(200, TRUE, "",
             [i \in 1..Len(items) |-> to_response_model(from_dict(items[i], t, t))],
             "", "", <<>>)

-----------------------------------------------------------------------------
(* State machine *)

Alphabet == {"a", "_", "1"}

ClaimStrings == UNION { [1..n -> Alphabet] : n \in 0..MaxClaimLen }

NotCalled == <<"?">>

InitSystem ==
    /\ clock = [sec |-> 0, micro |-> 0]
    /\ cosmos_client = 0
    /\ constructed = 0
    /\ store = {}
    /\ req = [r \in Req |-> Idle]
    /\ loop = 0
    /\ acked = {}

Init ==
    /\ InitSystem
    /\ claim_in = <<>>
    /\ customer_out = NotCalled

\* the clock advances by one microsecond step
Tick ==
    /\ \E t \in Times :
           /\ t # clock
           /\ TimeLeq(clock, t)
           /\ \A u \in Times : TimeLeq(clock, u) /\ u # clock => TimeLeq(t, u)
           /\ clock' = t
    /\ UNCHANGED <<cosmos_client, constructed, store, req, loop, acked, claim_in, customer_out>>

InFlightSubmits == Cardinality({r \in Req : req[r].kind = "submit" /\ req[r].pc # "done"})

\* POST /audit arrives: Depends(get_audit_container) starts in the thread pool
\* (the body is first read by the handler, where the model chooses it)
StartSubmit(r) ==
    /\ req[r].pc = "idle"
    /\ Cardinality(store) + InFlightSubmits < MaxDocs
    /\ req' = [req EXCEPT ![r] = [Idle EXCEPT !.kind = "submit", !.pc = "check"]]
    /\ UNCHANGED <<clock, cosmos_client, constructed, store, loop, acked, claim_in, customer_out>>

\* GET /audit/{customer_id} arrives: Depends(get_audit_container) starts
StartList(r) ==
    /\ req[r].pc = "idle"
    /\ req' = [req EXCEPT ![r] = [Idle EXCEPT !.kind = "list", !.pc = "check"]]
    /\ UNCHANGED <<clock, cosmos_client, constructed, store, loop, acked, claim_in, customer_out>>

\* GET /health arrives: health_check runs on the event loop and calls
\* check_cosmos_connection itself
StartHealth(r) ==
    /\ req[r].pc = "idle"
    /\ loop = 0
    /\ loop' = r
    /\ req' = [req EXCEPT ![r] = [Idle EXCEPT !.kind = "health", !.pc = "check"]]
    /\ UNCHANGED <<clock, cosmos_client, constructed, store, acked, claim_in, customer_out>>

\* get_cosmos_client, line 55: if _cosmos_client is None
GetClientCheck(r) ==
    /\ req[r].pc = "check"
    /\ req' = [req EXCEPT ![r].pc = IF cosmos_client = 0 THEN "construct" ELSE "return"]
    /\ UNCHANGED <<clock, cosmos_client, constructed, store, loop, acked, claim_in, customer_out>>

\* get_cosmos_client, line 56: _cosmos_client = CosmosDBClient()
GetClientConstruct(r) ==
    /\ req[r].pc = "construct"
    /\ constructed' = constructed + 1
    /\ cosmos_client' = constructed + 1
    /\ req' = [req EXCEPT ![r].pc = "return"]
    /\ UNCHANGED <<clock, store, loop, acked, claim_in, customer_out>>

\* CosmosDBClient() raises (missing configuration, database unreachable): the
\* dependency of submit and list fails before the handler's try block is
\* entered; check_cosmos_connection catches it for health
GetClientFails(r) ==
    /\ req[r].pc = "construct"
    /\ req' = [req EXCEPT ![r].pc = "done", ![r].fault = "client",
                 ![r].resp = IF req[r].kind = "health"
                             THEN Response(200, TRUE, "", <<>>, "unhealthy",
                                           "disconnected", isoformat(clock) \o <<"Z">>)
                             ELSE Unhandled]
    /\ loop' = loop
    /\ UNCHANGED <<clock, cosmos_client, constructed, store, acked, claim_in, customer_out>>

\* get_cosmos_client, line 57: return _cosmos_client
GetClientReturn(r) ==
    /\ req[r].pc = "return"
    /\ req' = [req EXCEPT ![r].pc = "handler", ![r].client = cosmos_client]
    /\ UNCHANGED <<clock, cosmos_client, constructed, store, loop, acked, claim_in, customer_out>>

\* the outcome of a storage call: it works (NoExc) or raises one of Faults
FaultName(e) ==
    IF e = NoExc THEN "none"
    ELSE IF e.type = "CosmosHttpResponseError" THEN "cosmos" ELSE "error"

\* create_audit_record: the coroutine has no await and runs to its end on the
\* event loop.  The clock is read by _generate_audit_id and again, not earlier,
\* for current_time.
SubmitHandler(r) ==
    /\ req[r].pc = "handler"
    /\ req[r].kind = "submit"
    /\ loop = 0
    /\ \E b \in Bodies, t_ts \in Times, e \in {NoExc} \cup Faults :
         LET customer_id == extract_customer_id_from_claim(b.claim_id)
             cosmos_record == CosmosAuditRecord(b.claim_id, customer_id,
                                  b.customer_name, b.process_name, b.process_status,
                                  b.process_details, b.agent_name, None, clock, t_ts)
             created == IF e = NoExc THEN create_item(store, to_dict(cosmos_record))
                        ELSE [raised |-> e, docs |-> store]
         IN  /\ TimeLeq(clock, t_ts)
             /\ clock' = t_ts
             /\ store' = created.docs
             /\ acked' = IF created.raised = NoExc
                         THEN acked \cup {[body |-> b, doc |-> to_dict(cosmos_record)]}
                         ELSE acked
             /\ req' = [req EXCEPT
                    ![r].pc = "done",
                    ![r].body = b,
                    ![r].prior = {d \in store : d.id = cosmos_record.id},
                    ![r].record = cosmos_record,
                    ![r].calls = req[r].calls + 1,
                    ![r].fault = FaultName(e),
                    ![r].resp =
                        IF created.raised = NoExc
                        THEN Response(200, TRUE, "Audit record created successfully",
                                      <<to_response_model(cosmos_record)>>, "", "", <<>>)
                        ELSE SubmitError(created.raised)]
    /\ loop' = r
    /\ UNCHANGED <<cosmos_client, constructed, claim_in, customer_out>>

\* get_audit_records_by_customer: one query, then the records are rebuilt
ListHandler(r) ==
    /\ req[r].pc = "handler"
    /\ req[r].kind = "list"
    /\ loop = 0
    /\ \E c \in CustomerIds, e \in {NoExc} \cup Faults :
         \E items \in (IF e = NoExc THEN query_items(store, c) ELSE {<<>>}) :
             req' = [req EXCEPT
                 ![r].pc = "done",
                 ![r].customer_id = c,
                 ![r].calls = req[r].calls + 1,
                 ![r].fault = FaultName(e),
                 ![r].resp = IF e = NoExc THEN ListResponse(items, clock)
                             ELSE ListError(e)]
    /\ loop' = r
    /\ UNCHANGED <<clock, cosmos_client, constructed, store, acked, claim_in, customer_out>>

\* check_cosmos_connection after get_cosmos_client: client.database.read(), and
\* health_check's body
HealthProbe(r) ==
    /\ req[r].pc = "handler"
    /\ req[r].kind = "health"
    /\ loop = r
    /\ \E e \in {NoExc} \cup Faults :
           req' = [req EXCEPT
               ![r].pc = "done",
               ![r].calls = req[r].calls + 1,
               ![r].fault = FaultName(e),
               ![r].resp = IF e = NoExc
                           THEN Response(200, TRUE, "", <<>>, "healthy", "connected",
                                         isoformat(clock) \o <<"Z">>)
                           ELSE Response(200, TRUE, "", <<>>, "unhealthy",
                                         "disconnected", isoformat(clock) \o <<"Z">>)]
    /\ loop' = r
    /\ UNCHANGED <<clock, cosmos_client, constructed, store, acked, claim_in, customer_out>>

\* the response is sent; the slot serves the next request
Finish(r) ==
    /\ req[r].pc = "done"
    /\ req' = [req EXCEPT ![r] = Idle]
    /\ loop' = IF loop = r THEN 0 ELSE loop
    /\ UNCHANGED <<clock, cosmos_client, constructed, store, acked, claim_in, customer_out>>

Next ==
    \/ Tick
    \/ \E r \in Req : StartSubmit(r)
    \/ \E r \in Req : StartList(r)
    \/ \E r \in Req : StartHealth(r)
    \/ \E r \in Req : GetClientCheck(r)
    \/ \E r \in Req : GetClientConstruct(r)
    \/ \E r \in Req : GetClientFails(r)
    \/ \E r \in Req : GetClientReturn(r)
    \/ \E r \in Req : SubmitHandler(r)
    \/ \E r \in Req : ListHandler(r)
    \/ \E r \in Req : HealthProbe(r)
    \/ \E r \in Req : Finish(r)

Spec == Init /\ [][Next]_vars

-----------------------------------------------------------------------------
(* The customer-id derivation on its own: every claim id up to MaxClaimLen *)

InitFn ==
    /\ InitSystem
    /\ claim_in \in ClaimStrings
    /\ customer_out = NotCalled

Extract ==
    /\ customer_out = NotCalled
    /\ customer_out' = extract_customer_id_from_claim(claim_in)
    /\ UNCHANGED <<clock, cosmos_client, constructed, store, req, loop, acked, claim_in>>

NextFn == Extract

SpecFn == InitFn /\ [][NextFn]_vars

-----------------------------------------------------------------------------
(* Properties *)

Done(r, kind) == req[r].pc = "done" /\ req[r].kind = kind

\* the documents of a customer, read off the store directly
DocsOf(c) == {d \in store : d.customerId = c}

C2_DuplicateIsConflict ==
    \A r \in Req :
        Done(r, "submit") /\ req[r].fault # "client" =>
            LET same == {d \in store : d.id = req[r].record.id}
            IN  /\ Cardinality(same) <= 1
                /\ req[r].prior # {} =>
                       /\ req[r].resp.status # 200
                       /\ req[r].fault = "none" =>
                              /\ req[r].resp.status = 409
                              /\ req[r].resp.json
                              /\ req[r].resp.detail = "Audit record already exists"
                       /\ same = req[r].prior

\* a second submit for the same customer in the same second, with another
\* timestamp, was answered 409 and the first document is the one stored
C2_Witness ==
    \E r \in Req :
        /\ Done(r, "submit")
        /\ req[r].resp.status = 409
        /\ \E d \in store : d.id = req[r].record.id /\ d # to_dict(req[r].record)

\* C3: a list of a customer whose only document comes from one successful
\* submit returns, unless the query itself failed, exactly one record, with
\* the fields of that submission and the customer id derived from its claim id.
C3_CreateThenRetrieve ==
    \A r \in Req : \A a \in acked :
        ( /\ Done(r, "list")
          /\ req[r].fault = "none"
          /\ req[r].customer_id = extract_customer_id_from_claim(a.body.claim_id)
          /\ Cardinality(DocsOf(req[r].customer_id)) = 1 )
        => /\ req[r].resp.status = 200
           /\ Len(req[r].resp.records) = 1
           /\ LET rec == req[r].resp.records[1]
              IN  /\ rec.claim_id = a.body.claim_id
                  /\ rec.customer_name = a.body.customer_name
                  /\ rec.process_name = a.body.process_name
                  /\ rec.process_status = a.body.process_status
                  /\ rec.process_details = a.body.process_details
                  /\ rec.agent_name = a.body.agent_name
                  /\ rec.customer_id = req[r].customer_id
                  /\ rec.audit_id = a.doc.audit_id
                  /\ rec.timestamp = a.doc.timestamp
                  /\ rec.created_at = a.doc.created_at
                  /\ rec.updated_at = a.doc.updated_at

\* the single record of customer ABCDEF was listed while another customer has
\* a document too
C3_Witness ==
    \E r \in Req :
        /\ Done(r, "list")
        /\ req[r].resp.status = 200
        /\ req[r].customer_id = <<"A", "B", "C", "D", "E", "F">>
        /\ Len(req[r].resp.records) = 1
        /\ req[r].resp.records[1].claim_id = <<"a", "b", "c", "d", "e", "f", "g">>
        /\ Cardinality(store) = 2

\* the instant a formatted timestamp denotes, in microseconds
DigitVal(c) == Code(c) - 48

RECURSIVE NumOf(_)
NumOf(digits) ==
    IF digits = <<>> THEN 0
    ELSE 10 * NumOf(SubSeq(digits, 1, Len(digits) - 1)) + DigitVal(digits[Len(digits)])

InstantOf(ts) ==
    1000000 * NumOf(SubSeq(ts, 1, 2))
        + (IF ts[3] = "." THEN NumOf(SubSeq(ts, 4, 9)) ELSE 0)

\* C4: the records of a successful list are in ascending order of the instants
\* their timestamps denote.
C4_AscendingByInstant ==
    \A r \in Req :
        Done(r, "list") /\ req[r].resp.status = 200 =>
            \A i, j \in 1..Len(req[r].resp.records) :
                i < j => InstantOf(req[r].resp.records[i].timestamp)
                             <= InstantOf(req[r].resp.records[j].timestamp)

\* C5: a list of a customer without documents is answered 404 unless the query
\* itself failed, and a 200 always carries at least one record.
C5_EmptyIsNotFound ==
    \A r \in Req :
        Done(r, "list") /\ req[r].fault # "client" =>
            /\ req[r].resp.status = 200 => Len(req[r].resp.records) >= 1
            /\ (req[r].fault = "none" /\ DocsOf(req[r].customer_id) = {}) =>
                   /\ req[r].resp.status = 404
                   /\ req[r].resp.json
                   /\ req[r].resp.records = <<>>

\* a customer without documents was listed while the store holds another
\* customer's document
C5_Witness ==
    \E r \in Req :
        /\ Done(r, "list")
        /\ req[r].resp.status = 404
        /\ DocsOf(req[r].customer_id) = {}
        /\ store # {}

\* C6: every document that a submit has written is still in the store, with
\* every field as it was written.
C6_StoredRecordsImmutable ==
    /\ \A a \in acked : a.doc \in store
    /\ Cardinality(store) = Cardinality(acked)

\* after a write, a further submit of the same id has been refused, and the
\* clock has moved on
C6_Witness ==
    /\ acked # {}
    /\ \E r \in Req : Done(r, "submit") /\ req[r].prior # {}
    /\ \A a \in acked : a.doc.timestamp # isoformat(clock) \o <<"Z">>

\* C7: from_dict(to_dict(e)) = e for every record e built by a submit, whatever
\* the clock has become when from_dict runs.
C7_RoundTrip ==
    \A r \in Req :
        Done(r, "submit") /\ req[r].fault # "client" =>
            from_dict(to_dict(req[r].record), clock, clock) = req[r].record

\* a record was built and the clock has advanced past its timestamp
C7_Witness ==
    \E r \in Req :
        /\ Done(r, "submit")
        /\ req[r].fault # "client"
        /\ req[r].record.timestamp # isoformat(clock) \o <<"Z">>
        /\ from_dict(to_dict(req[r].record), clock, clock) = req[r].record

\* C8: every storage fault in submit and list, the failure to obtain the client
\* included, becomes a JSON error response with a detail, 409 for a conflict
\* and 500 otherwise, after a single storage call.
C8_FaultsTranslated ==
    \A r \in Req :
        ( /\ req[r].pc = "done"
          /\ req[r].kind \in {"submit", "list"}
          /\ (req[r].fault # "none" \/ req[r].prior # {}) )
        => /\ req[r].resp.json
           /\ req[r].resp.detail # ""
           /\ req[r].resp.status = (IF req[r].fault = "none" THEN 409 ELSE 500)
           /\ req[r].calls <= 1

\* C9: CosmosDBClient() returns an instance at most once, and every request
\* gets that instance.
C9_InitializedOnce ==
    /\ constructed <= 1
    /\ \A r \in Req : req[r].client \in {0, 1}

\* C10: the second in the generated audit id is the second of the timestamp.
C10_SameSecond ==
    \A r \in Req :
        Done(r, "submit") /\ req[r].fault # "client" =>
            SubSeq(req[r].record.audit_id, 4, 5) = SubSeq(req[r].record.timestamp, 1, 2)

====
